---- MODULE Spec2Model ----
(***************************************************************************)
(* Model of lab9.py: the pong physics (Ball, Racket), the run loop of      *)
(* PongGame with a NaiveOponent at the top and a HumanPlayer or a         *)
(* NaiveOponent at the bottom, and the controller of FuzzyPlayer: its     *)
(* terms and rules, with the inference (min, max, clipping, centroid over  *)
(* the grid of the output) in exact fractions.                             *)
(*                                                                         *)
(* Speeds are floats in the source (x_speed *= 1.1).  The model keeps a    *)
(* speed as sign and number of 1.1 factors, [sgn, pow], standing for       *)
(* sgn * start_speed * 1.1^pow, and rounds it with exact arithmetic.       *)
(* Memberships are kept as integers scaled by MScale.                      *)
(***************************************************************************)
EXTENDS Integers, Sequences, FiniteSets, TLC

\* ---------------------------------------------------------------- bounds
\* number of frames of the run loop that are explored
MaxTicks == 72
\* number of frames explored when both players are NaiveOponents
MaxTicksNaive == 450
\* largest number of 1.1 factors a speed collects in the game
MaxPower == 6
\* largest number of 1.1 factors in the call sequences of SpecBall
MaxCalls == 27
\* how far outside the board the targets of Racket.move are drawn
TargetMargin == 5
\* strides of the grid of observations of SpecFuzz off the two axes
GridX == 50
GridY == 50
\* stride of the y_diff of the observations with x_diff within middle_edge
FineY == 10
\* and how near the feet and peaks of the terms of y_dist every y_diff is taken
FootMargin == 2

\* ------------------------------------------------------ program constants
FPS == 30
W == 800
H == 400
radius == 20
start_speed == 3
racket_width == 80
racket_height == 20
max_speed == 10
start_color == <<255, 10, 0>>
start_x == W \div 2
start_y == H \div 2
\* Clock.tick(FPS) lets 1000 // FPS milliseconds pass per frame
FrameMs == 1000 \div FPS

VARIABLES pc, ball, player_paddle, opponent_paddle, now, move_x, player, x_diff, y_diff, mf, out

vars == <<pc, ball, player_paddle, opponent_paddle, now, move_x, player, x_diff, y_diff, mf, out>>

\* ------------------------------------------------------------------ Ball
RECURSIVE Pow(_, _)
Pow(b, n) == IF n = 0 THEN 1 ELSE b * Pow(b, n - 1)

Abs(n) == IF n < 0 THEN -n ELSE n

\* round(self.x_speed): the nearest integer to sgn * start_speed * 1.1^pow
Round(v) == v.sgn * ((2 * start_speed * Pow(11, v.pow) + Pow(10, v.pow)) \div (2 * Pow(10, v.pow)))

Speed(s, p) == [sgn |-> s, pow |-> p]

NewBall(x, y) ==
    [x |-> x, y |-> y, x_speed |-> Speed(1, 0), y_speed |-> Speed(1, 0),
     color |-> start_color, last_collision |-> 0]

NewRacket(x, y) == [x |-> x, y |-> y]

bounce_y(b) == [b EXCEPT !.y_speed.sgn = -@]

bounce_x(b) == [b EXCEPT !.x_speed.sgn = -@]

\* bounce_y_power scaling the vertical speed only
bounce_y_power_OnlyY(b) ==
    bounce_y([b EXCEPT !.color = <<@[1], IF @[2] < 255 THEN @[2] + 10 ELSE @[2], @[3]>>,
                       !.y_speed.pow = @ + 1])

bounce_y_power(b) ==
    bounce_y([b EXCEPT !.color = <<@[1], IF @[2] < 255 THEN @[2] + 10 ELSE @[2], @[3]>>,
                       !.x_speed.pow = @ + 1,
                       !.y_speed.pow = @ + 1])

\* Ball.reset without its last line, the call of bounce_y
reset_NoBounce(b) ==
    [b EXCEPT !.x = start_x, !.y = start_y,
              !.x_speed = Speed(1, 0), !.y_speed = Speed(1, 0),
              !.color = start_color]

reset(b) ==
    bounce_y([b EXCEPT !.x = start_x, !.y = start_y,
                       !.x_speed = Speed(1, 0), !.y_speed = Speed(1, 0),
                       !.color = start_color])

\* pygame.Rect.colliderect of the ball's rect and a racket's rect
colliderect(b, r) ==
    /\ b.x < r.x + racket_width
    /\ b.y < r.y + racket_height
    /\ b.x + radius > r.x
    /\ b.y + radius > r.y

\* the outer quarter test with <= in place of <
EdgeHit_Inclusive(b, r) ==
    \/ b.x + radius <= r.x + racket_width \div 4
    \/ b.x >= r.x + racket_width - racket_width \div 4

\* the outer quarter test of Ball.move
EdgeHit(b, r) ==
    \/ b.x + radius < r.x + racket_width \div 4
    \/ b.x > r.x + racket_width - racket_width \div 4

\* body of the loop over the rackets in Ball.move
Collide(b, r, t) ==
    IF colliderect(b, r)
    THEN IF EdgeHit(b, r)
         THEN bounce_y_power([b EXCEPT !.last_collision = t])
         ELSE bounce_y([b EXCEPT !.last_collision = t])
    ELSE b

Advance(b) == [b EXCEPT !.x = @ + Round(b.x_speed), !.y = @ + Round(b.y_speed)]

\* the test of the horizontal walls without the ball's width
OutsideX_NoWidth(b) == b.x < 0 \/ b.x > W

\* the test of the right wall alone
OutsideX_RightOnly(b) == b.x > W - radius

OutsideX(b) == b.x < 0 \/ b.x > W - radius

OutsideY(b) == b.y < 0 \/ b.y > H - radius

\* Ball.move(board, r1, r2) when pygame.time.get_ticks() returns t
Ball_move(b, r1, r2, t) ==
    LET b1 == Advance(b)
        b2 == IF OutsideX(b1) THEN bounce_x(b1) ELSE b1
        b3 == IF OutsideY(b2) THEN reset(b2) ELSE b2
    IN  IF t - b3.last_collision < FPS * 4
        THEN b3
        ELSE Collide(Collide(b3, r1, t), r2, t)

\* ---------------------------------------------------------------- Racket
\* Racket.move without the test of the right edge
Racket_move_NoRightTest(r, x) ==
    LET d0 == x - r.x
        d1 == IF d0 > max_speed THEN max_speed ELSE d0
        d2 == IF d1 < -max_speed THEN -max_speed ELSE d1
        d3 == IF r.x + d2 < 0 THEN 0 ELSE d2
    IN  [r EXCEPT !.x = @ + d3]

\* Racket.move stopping at the edge of the board instead of staying put
Racket_move_ToEdge(r, x) ==
    LET d0 == x - r.x
        d1 == IF d0 > max_speed THEN max_speed ELSE d0
        d2 == IF d1 < -max_speed THEN -max_speed ELSE d1
        d3 == IF r.x + d2 < 0 THEN -r.x ELSE d2
        d4 == IF r.x + racket_width + d3 > W THEN W - racket_width - r.x ELSE d3
    IN  [r EXCEPT !.x = @ + d4]

Racket_move(r, x) ==
    LET d0 == x - r.x
        d1 == IF d0 > max_speed THEN max_speed ELSE d0
        d2 == IF d1 < -max_speed THEN -max_speed ELSE d1
        d3 == IF r.x + d2 < 0 THEN 0 ELSE d2
        d4 == IF r.x + racket_width + d3 > W THEN 0 ELSE d3
    IN  [r EXCEPT !.x = @ + d4]

\* ---------------------------------------------------------- FuzzyPlayer

edge == 400
middle_edge == 30

\* common denominator of the memberships of x_dist and y_dist: the ramps are
\* 380, 15 and 100 wide
MScale == (edge - (middle_edge - 10)) * (middle_edge \div 2)

\* fuzz.trimf at one point of the universe, times MScale
trimf(x, a, b, c) ==
    IF x = b THEN MScale
    ELSE IF a # b /\ a < x /\ x < b THEN (MScale * (x - a)) \div (b - a)
    ELSE IF b # c /\ b < x /\ x < c THEN (MScale * (c - x)) \div (c - b)
    ELSE 0

\* the terms of x_dist with far_right starting at middle_edge
x_dist_LateFarRight(x) ==
    [far_left  |-> trimf(x, -edge, -edge, -middle_edge + 10),
     left      |-> trimf(2 * x, -2 * middle_edge, -middle_edge, 0),
     center    |-> trimf(2 * x, -middle_edge, 0, middle_edge),
     right     |-> trimf(2 * x, 0, middle_edge, 2 * middle_edge),
     far_right |-> trimf(x, middle_edge, edge, edge)]

\* the terms of x_dist with far_left and far_right ending at middle_edge
x_dist_Gap(x) ==
    [far_left  |-> trimf(x, -edge, -edge, -middle_edge),
     left      |-> trimf(2 * x, -2 * middle_edge, -middle_edge, 0),
     center    |-> trimf(2 * x, -middle_edge, 0, middle_edge),
     right     |-> trimf(2 * x, 0, middle_edge, 2 * middle_edge),
     far_right |-> trimf(x, middle_edge, edge, edge)]

\* the terms of x_dist with the peaks of far_left and far_right at the
\* inner ends
x_dist_PeakInside(x) ==
    [far_left  |-> trimf(x, -edge, -middle_edge + 10, -middle_edge + 10),
     left      |-> trimf(2 * x, -2 * middle_edge, -middle_edge, 0),
     center    |-> trimf(2 * x, -middle_edge, 0, middle_edge),
     right     |-> trimf(2 * x, 0, middle_edge, 2 * middle_edge),
     far_right |-> trimf(x, middle_edge - 10, middle_edge - 10, edge)]

x_dist(x) ==
    [far_left  |-> trimf(x, -edge, -edge, -middle_edge + 10),
     left      |-> trimf(2 * x, -2 * middle_edge, -middle_edge, 0),
     center    |-> trimf(2 * x, -middle_edge, 0, middle_edge),
     right     |-> trimf(2 * x, 0, middle_edge, 2 * middle_edge),
     far_right |-> trimf(x, middle_edge - 10, edge, edge)]

y_dist(y) ==
    [above  |-> trimf(y, -200, -100, 0),
     center |-> trimf(y, -100, 0, 100),
     below  |-> trimf(y, 0, 100, 200)]

NoMf == [x |-> <<>>, y |-> <<>>]

\* the terms of the velocity with the peak of stop at 1
velocity_mf_StopOff(u) ==
    [fast_left  |-> trimf(u, -10, -10, -10),
     slow_left  |-> trimf(u, -9, -9, -3),
     stop       |-> trimf(u, -3, 1, 3),
     slow_right |-> trimf(u, 3, 9, 9),
     fast_right |-> trimf(u, 10, 10, 10)]

\* the terms of the output velocity over range(-10, 11), times MScale
velocity_mf(u) ==
    [fast_left  |-> trimf(u, -10, -10, -10),
     slow_left  |-> trimf(u, -9, -9, -3),
     stop       |-> trimf(u, -3, 0, 3),
     slow_right |-> trimf(u, 3, 9, 9),
     fast_right |-> trimf(u, 10, 10, 10)]

VelocityTerms == {"fast_left", "slow_left", "stop", "slow_right", "fast_right"}

VelocityUniverse == -10 .. 10

\* antecedents: a term of an input, or two antecedents joined by & or |
Term(v, t) == [op |-> "term", var |-> v, term |-> t]

And(a, b) == [op |-> "and", l |-> a, r |-> b]

Or(a, b) == [op |-> "or", l |-> a, r |-> b]

Rule(a, c) == [antecedent |-> a, consequent |-> c]

\* the rules with slow_right and slow_left as consequents of the first two
rules_NoOverride ==
    << Rule(And(Term("x", "left"), Or(Term("y", "above"), Term("y", "center"))), "slow_right"),
       Rule(And(Term("x", "right"), Or(Term("y", "above"), Term("y", "center"))), "slow_left"),
       Rule(Term("x", "far_left"), "fast_right"),
       Rule(Term("x", "left"), "slow_right"),
       Rule(Term("x", "center"), "stop"),
       Rule(Term("x", "right"), "slow_left"),
       Rule(Term("x", "far_right"), "fast_left") >>

rules ==
    << Rule(And(Term("x", "left"), Or(Term("y", "above"), Term("y", "center"))), "fast_right"),
       Rule(And(Term("x", "right"), Or(Term("y", "above"), Term("y", "center"))), "fast_left"),
       Rule(Term("x", "far_left"), "fast_right"),
       Rule(Term("x", "left"), "slow_right"),
       Rule(Term("x", "center"), "stop"),
       Rule(Term("x", "right"), "slow_left"),
       Rule(Term("x", "far_right"), "fast_left") >>

Min(a, b) == IF a < b THEN a ELSE b

Max(a, b) == IF a > b THEN a ELSE b

\* strength of an antecedent under the memberships m: & is min, | is max
RECURSIVE Strength(_, _)
Strength(a, m) ==
    IF a.op = "term" THEN m[a.var][a.term]
    ELSE IF a.op = "and" THEN Min(Strength(a.l, m), Strength(a.r, m))
    ELSE Max(Strength(a.l, m), Strength(a.r, m))

NoFiring == [t \in VelocityTerms |-> 0]

\* firing strength of every output term: the maximum over the rules with
\* that consequent, the rules taken in the given order
RECURSIVE Accumulate(_, _, _)
Accumulate(m, order, acc) ==
    IF order = <<>> THEN acc
    ELSE LET r == rules[Head(order)]
         IN  Accumulate(m, Tail(order),
                        [acc EXCEPT ![r.consequent] = Max(@, Strength(r.antecedent, m))])

SourceOrder == <<1, 2, 3, 4, 5, 6, 7>>

Firing(m) == Accumulate(m, SourceOrder, NoFiring)

\* the aggregate output set at u: every term clipped at its firing strength,
\* then the maximum over the terms
Aggregate(fs, u) ==
    LET v == velocity_mf(u)
    IN  Max(Max(Min(fs.fast_left, v.fast_left), Min(fs.slow_left, v.slow_left)),
            Max(Min(fs.stop, v.stop),
                Max(Min(fs.slow_right, v.slow_right), Min(fs.fast_right, v.fast_right))))

RECURSIVE Gcd(_, _)
Gcd(a, b) == IF b = 0 THEN a ELSE Gcd(b, a % b)

\* the fraction n / d in lowest terms, d > 0
Frac(n, d) == LET g == Gcd(Abs(n), d) IN [num |-> n \div g, den |-> d \div g]

RECURSIVE SumOver(_, _, _)
SumOver(f, lo, hi) == IF lo > hi THEN 0 ELSE f[lo] + SumOver(f, lo + 1, hi)

\* centroid of the aggregate set over the grid of the output universe, and
\* 0 when the set is empty
Centroid(fs) ==
    LET agg == [u \in VelocityUniverse |-> Aggregate(fs, u)]
        moment == [u \in VelocityUniverse |-> u * agg[u]]
        den == SumOver(agg, -10, 10)
    IN  IF den = 0 THEN [num |-> 0, den |-> 1]
        ELSE Frac(SumOver(moment, -10, 10), den)

Fuzzified(x, y) == [x |-> x_dist(x), y |-> y_dist(y)]

\* the crisp velocity for an observation, as a fraction in lowest terms
infer(x, y) == Centroid(Firing(Fuzzified(x, y)))

NoOut == [num |-> 0, den |-> 0]

\* FuzzyPlayer.act: Racket.move towards rect.x + velocity, the velocity a
\* fraction v; pygame keeps rect.x an int and drops the fraction of the sum
FuzzyPlayer_act(r, v) ==
    LET d1 == IF v.num > max_speed * v.den THEN [num |-> max_speed, den |-> 1] ELSE v
        d2 == IF d1.num < -max_speed * d1.den THEN [num |-> -max_speed, den |-> 1] ELSE d1
        d3 == IF r.x * d2.den + d2.num < 0 THEN [num |-> 0, den |-> 1] ELSE d2
        d4 == IF (r.x + racket_width) * d3.den + d3.num > W * d3.den
              THEN [num |-> 0, den |-> 1] ELSE d3
    IN  [r EXCEPT !.x = (@ * d4.den + d4.num) \div d4.den]

\* --------------------------------------------------------- initial state
\* the classes PongGame can be given as player2 (lab9.py lines 302, 209, 218)
PlayerTypes == {"HumanPlayer", "NaiveOponent"}

Construct ==
    /\ ball = NewBall(W \div 2, H \div 2)
    /\ opponent_paddle = NewRacket(W \div 2, 0)
    /\ player_paddle = NewRacket(W \div 2, H - 20)
    /\ now = 0
    /\ move_x = 0
    /\ x_diff = 0
    /\ y_diff = 0
    /\ mf = NoMf
    /\ out = NoOut

Init ==
    /\ Construct
    /\ pc = "events"
    /\ player \in PlayerTypes

\* -------------------------------------------------------- PongGame.run
fuzzVars == <<x_diff, y_diff, mf, out>>

\* handle_events reading the keys before it looks at the events
handle_events_KeysFirst ==
    /\ pc = "events"
    /\ \E ev \in {"none", "QUIT", "ESCAPE"}, key \in {"none", "K_LEFT", "K_RIGHT"} :
         /\ pc' = IF ev # "none" THEN "quit" ELSE "move"
         /\ IF key = "K_LEFT" /\ player = "HumanPlayer"
            THEN player_paddle' = Racket_move(player_paddle, 0)
            ELSE IF key = "K_RIGHT" /\ player = "HumanPlayer"
            THEN player_paddle' = Racket_move(player_paddle, W)
            ELSE UNCHANGED player_paddle
    /\ UNCHANGED <<ball, opponent_paddle, now, move_x, player, fuzzVars>>

\* handle_events: a QUIT or ESCAPE event ends the loop before the keys are
\* read; otherwise the pressed key reaches move_manual, which moves the
\* racket of a HumanPlayer and does nothing for the other players
handle_events ==
    /\ pc = "events"
    /\ \E ev \in {"none", "QUIT", "ESCAPE"}, key \in {"none", "K_LEFT", "K_RIGHT"} :
         IF ev # "none"
         THEN /\ pc' = "quit"
              /\ UNCHANGED player_paddle
         ELSE /\ pc' = "move"
              /\ IF key = "K_LEFT" /\ player = "HumanPlayer"
                 THEN player_paddle' = Racket_move(player_paddle, 0)
                 ELSE IF key = "K_RIGHT" /\ player = "HumanPlayer"
                 THEN player_paddle' = Racket_move(player_paddle, W)
                 ELSE UNCHANGED player_paddle
    /\ UNCHANGED <<ball, opponent_paddle, now, move_x, player, fuzzVars>>

BallMove ==
    /\ pc = "move"
    /\ ball' = Ball_move(ball, player_paddle, opponent_paddle, now)
    /\ ball'.x_speed.pow <= MaxPower
    /\ pc' = "draw"
    /\ UNCHANGED <<player_paddle, opponent_paddle, now, move_x, player, fuzzVars>>

\* the run loop with the opponent's act before the draw
BoardDraw_AfterOponent ==
    /\ pc = "draw"
    /\ pc' = "player_act"
    /\ UNCHANGED <<ball, player_paddle, opponent_paddle, now, move_x, player, fuzzVars>>

\* Board.draw changes nothing of the game
BoardDraw ==
    /\ pc = "draw"
    /\ pc' = "oponent_act"
    /\ UNCHANGED <<ball, player_paddle, opponent_paddle, now, move_x, player, fuzzVars>>

\* NaiveOponent.act: move towards the ball's centerx
NaiveOponent_act(r, b) == Racket_move(r, b.x + radius \div 2)

OponentAct ==
    /\ pc = "oponent_act"
    /\ opponent_paddle' = NaiveOponent_act(opponent_paddle, ball)
    /\ pc' = "player_act"
    /\ UNCHANGED <<ball, player_paddle, now, move_x, player, fuzzVars>>

\* HumanPlayer inherits Player.act, which does nothing
PlayerAct ==
    /\ pc = "player_act"
    /\ player_paddle' = IF player = "NaiveOponent"
                        THEN NaiveOponent_act(player_paddle, ball)
                        ELSE player_paddle
    /\ pc' = "clock"
    /\ UNCHANGED <<ball, opponent_paddle, now, move_x, player, fuzzVars>>

\* frames explored: the keys of a HumanPlayer branch at every frame, so its
\* games are followed for fewer frames
Horizon == IF player = "HumanPlayer" THEN MaxTicks ELSE MaxTicksNaive

ClockTick ==
    /\ pc = "clock"
    /\ now + FrameMs <= Horizon * FrameMs
    /\ now' = now + FrameMs
    /\ pc' = "events"
    /\ UNCHANGED <<ball, player_paddle, opponent_paddle, move_x, player, fuzzVars>>

Next ==
    \/ handle_events
    \/ BallMove
    \/ BoardDraw
    \/ OponentAct
    \/ PlayerAct
    \/ ClockTick

Spec == Init /\ [][Next]_vars

\* ------------------------------------------- Racket.move called directly
gameVars == <<pc, ball, opponent_paddle, now, player>>

Targets(r) ==
    {r.x + d : d \in -(max_speed + TargetMargin) .. (max_speed + TargetMargin)}
        \cup {-TargetMargin, 0, W, W + TargetMargin}

RacketInit ==
    /\ Construct
    /\ pc = "racket"
    /\ player = "HumanPlayer"

\* Player.move(x): self.racket.move(x, self.board)
PlayerMove ==
    /\ pc = "racket"
    /\ \E x \in Targets(player_paddle) :
         /\ move_x' = x
         /\ player_paddle' = Racket_move(player_paddle, x)
    /\ UNCHANGED <<gameVars, fuzzVars>>

RacketNext == PlayerMove

SpecRacket == RacketInit /\ [][RacketNext]_vars

\* --------------------------------------- the methods of Ball called directly
BallInit ==
    /\ Construct
    /\ pc = "ball"
    /\ player = "HumanPlayer"

restVars == <<pc, player_paddle, opponent_paddle, now, move_x, player, fuzzVars>>

CallBounceX ==
    /\ pc = "ball"
    /\ ball' = bounce_x(ball)
    /\ UNCHANGED restVars

CallBounceY ==
    /\ pc = "ball"
    /\ ball' = bounce_y(ball)
    /\ UNCHANGED restVars

CallBounceYPower ==
    /\ pc = "ball"
    /\ ball.x_speed.pow < MaxCalls
    /\ ball' = bounce_y_power(ball)
    /\ UNCHANGED restVars

CallReset ==
    /\ pc = "ball"
    /\ ball' = reset(ball)
    /\ UNCHANGED restVars

BallNext ==
    \/ CallBounceX
    \/ CallBounceY
    \/ CallBounceYPower
    \/ CallReset

SpecBall == BallInit /\ [][BallNext]_vars

\* ------------------------------------------ fuzzification of an observation
Observations ==
    {o \in (-edge .. edge) \X (-200 .. 200) :
        \/ o[1] = 0
        \/ o[2] = 0
        \/ o[1] % GridX = 0 /\ o[2] % GridY = 0}
    \cup {o \in (-middle_edge .. middle_edge) \X (-200 .. 200) :
            \/ o[2] % FineY = 0
            \/ \E b \in {-200, -100, 0, 100, 200} : Abs(o[2] - b) <= FootMargin}

FuzzInit ==
    /\ ball = NewBall(W \div 2, H \div 2)
    /\ opponent_paddle = NewRacket(W \div 2, 0)
    /\ player_paddle = NewRacket(W \div 2, H - 20)
    /\ now = 0
    /\ move_x = 0
    /\ pc = "fuzzify"
    /\ player = "HumanPlayer"
    /\ \E o \in Observations : x_diff = o[1] /\ y_diff = o[2]
    /\ mf = NoMf
    /\ out = NoOut

\* the memberships of the inputs x_dist and y_dist in their terms
Fuzzify ==
    /\ pc = "fuzzify"
    /\ mf' = [x |-> x_dist(x_diff), y |-> y_dist(y_diff)]
    /\ pc' = "fuzzified"
    /\ UNCHANGED <<ball, player_paddle, opponent_paddle, now, move_x, player, x_diff, y_diff, out>>

\* the orders in which the rules are evaluated: the rotations of the order
\* of the source and their reversals
Rotate(q, k) == [i \in 1..Len(q) |-> q[((i + k - 1) % Len(q)) + 1]]

Reverse(q) == [i \in 1..Len(q) |-> q[Len(q) + 1 - i]]

RuleOrders ==
    {Rotate(SourceOrder, k) : k \in 0..6} \cup {Reverse(Rotate(SourceOrder, k)) : k \in 0..6}

\* racket_simulation.compute(): rules, aggregation and defuzzification
Compute ==
    /\ pc = "fuzzified"
    /\ \E order \in RuleOrders : out' = Centroid(Accumulate(mf, order, NoFiring))
    /\ pc' = "computed"
    /\ UNCHANGED <<ball, player_paddle, opponent_paddle, now, move_x, player, x_diff, y_diff, mf>>

\* the rest of FuzzyPlayer.act: self.move(self.racket.rect.x + velocity)
Act ==
    /\ pc = "computed"
    /\ player_paddle' = FuzzyPlayer_act(player_paddle, out)
    /\ pc' = "acted"
    /\ UNCHANGED <<ball, opponent_paddle, now, move_x, player, x_diff, y_diff, mf, out>>

FuzzNext ==
    \/ Fuzzify
    \/ Compute
    \/ Act

SpecFuzz == FuzzInit /\ [][FuzzNext]_vars

\* ------------------------------------------------------------ properties
Clamp(v, lo, hi) == IF v < lo THEN lo ELSE IF v > hi THEN hi ELSE v

\* C1: whatever targets Racket.move is called with, the paddle's left edge
\* is at least 0 and its right edge is at most the width of the board.
C1_PaddleOnBoard ==
    /\ player_paddle.x >= 0
    /\ player_paddle.x + racket_width <= W

\* the paddle stands at the right edge after a call that aimed beyond it
C1_Witness ==
    /\ pc = "racket"
    /\ player_paddle.x + racket_width = W
    /\ move_x > W

\* C2: a call of Racket.move changes x by d = clamp(target - x, -max_speed,
\* max_speed) when the paddle stays on the board with it, and leaves x as
\* it is otherwise; no call moves the paddle by more than max_speed.
C2_MoveDelta ==
    [][pc = "racket" =>
        LET d == Clamp(move_x' - player_paddle.x, -max_speed, max_speed)
        IN  /\ IF 0 <= player_paddle.x + d /\ player_paddle.x + racket_width + d <= W
               THEN player_paddle'.x = player_paddle.x + d
               ELSE player_paddle'.x = player_paddle.x
            /\ Abs(player_paddle'.x - player_paddle.x) <= max_speed]_vars

\* a call whose displacement would cross the right edge left the paddle
\* short of the edge
C2_Witness ==
    /\ pc = "racket"
    /\ player_paddle.x + racket_width < W
    /\ player_paddle.x + racket_width + max_speed > W
    /\ move_x >= player_paddle.x + max_speed

\* the ball's rect, at x and y, overlaps the rect of racket r
Overlaps(x, y, r) ==
    /\ x < r.x + racket_width
    /\ x + radius > r.x
    /\ y < r.y + racket_height
    /\ y + radius > r.y

\* the ball at x lies in an outer quarter of racket r
InOuterQuarter(x, r) ==
    \/ x + radius < r.x + racket_width \div 4
    \/ x > r.x + racket_width - racket_width \div 4

Rackets == {player_paddle, opponent_paddle}

\* calls of Ball.move since the call that registered the last collision
TicksSinceCollision == (now - ball.last_collision) \div FrameMs

NextX == ball.x + Round(ball.x_speed)

NextY == ball.y + Round(ball.y_speed)

\* C3: once a paddle collision has registered, an overlap with a paddle in a
\* call of Ball.move fewer than 4 * FPS calls later changes neither the
\* vertical velocity nor the speed.
C3_DebounceInTicks ==
    [][(/\ pc = "move"
        /\ ball.last_collision > 0
        /\ TicksSinceCollision < 4 * FPS
        /\ ~(NextY < 0 \/ NextY > H - radius)
        /\ \E r \in Rackets : Overlaps(NextX, NextY, r))
       => /\ ball'.y_speed = ball.y_speed
          /\ ball'.x_speed.pow = ball.x_speed.pow]_vars

\* C4: every component of the ball's color is at most 255 after any
\* sequence of bounce_y_power and reset calls.
C4_ColorCapped == \A i \in 1..3 : ball.color[i] <= 255

\* C5: a tick in which the advanced ball is above or below the board ends
\* with the ball at its start position, with velocity (+start_speed,
\* -start_speed) and with the start color.
C5_ResetPostcondition ==
    [][(pc = "move" /\ (NextY < 0 \/ NextY > H - radius))
       => /\ ball'.x = start_x
          /\ ball'.y = start_y
          /\ ball'.x_speed = Speed(1, 0)
          /\ ball'.y_speed = Speed(-1, 0)
          /\ ball'.color = start_color]_vars

\* the ball is back at its start, moving up, after a game with a collision
C5_Witness ==
    /\ pc = "draw"
    /\ ball.last_collision > 0
    /\ ball.x = start_x
    /\ ball.y = start_y
    /\ ball.y_speed = Speed(-1, 0)
    /\ ball.color = start_color

\* C6: a tick without a reset puts the ball at the advanced position and
\* inverts the horizontal velocity exactly when the advanced x is left of 0
\* or right of W - width; the vertical velocity and the speed change only
\* when a paddle collision registers.
C6_WallBounce ==
    [][(pc = "move" /\ ~(NextY < 0 \/ NextY > H - radius))
       => /\ ball'.x = NextX
          /\ ball'.y = NextY
          /\ (ball'.x_speed.sgn = -ball.x_speed.sgn) <=> (NextX < 0 \/ NextX > W - radius)
          /\ (ball'.x_speed.sgn = ball.x_speed.sgn) <=> ~(NextX < 0 \/ NextX > W - radius)
          /\ ball'.last_collision = ball.last_collision
               => /\ ball'.y_speed = ball.y_speed
                  /\ ball'.x_speed.pow = ball.x_speed.pow]_vars

\* the ball was drawn beyond the right wall, already heading back
C6_Witness ==
    /\ pc = "draw"
    /\ ball.x > W - radius
    /\ ball.x_speed.sgn = -1

\* C7: when the debounce lets a collision through and the advanced ball
\* overlaps a paddle, it overlaps one paddle only and that paddle decides:
\* in an outer quarter both speeds gain a factor 1.1 and the vertical
\* velocity is inverted, otherwise only the vertical velocity is inverted.
C7_CollisionOutcome ==
    [][(/\ pc = "move"
        /\ now - ball.last_collision >= FPS * 4
        /\ ~(NextY < 0 \/ NextY > H - radius)
        /\ \E r \in Rackets : Overlaps(NextX, NextY, r))
       => /\ Cardinality({r \in Rackets : Overlaps(NextX, NextY, r)}) = 1
          /\ \A r \in Rackets : Overlaps(NextX, NextY, r) =>
               /\ ball'.y_speed.sgn = -ball.y_speed.sgn
               /\ IF InOuterQuarter(NextX, r)
                  THEN /\ ball'.x_speed.pow = ball.x_speed.pow + 1
                       /\ ball'.y_speed.pow = ball.y_speed.pow + 1
                  ELSE /\ ball'.x_speed.pow = ball.x_speed.pow
                       /\ ball'.y_speed.pow = ball.y_speed.pow]_vars

\* a collision off the outer quarters has just registered for a ball that
\* an earlier power bounce had sped up
C7_Witness ==
    /\ pc = "draw"
    /\ ball.last_collision = now
    /\ ball.x_speed.pow >= 1
    /\ \E r \in Rackets : Overlaps(ball.x, ball.y, r) /\ ~InOuterQuarter(ball.x, r)

\* C8 as stated: the steps of a tick are event polling, Ball.move, the two
\* act calls, and Board.draw last.
C8_ActBeforeDraw ==
    [][/\ pc = "events" => pc' \in {"move", "quit"}
       /\ pc = "move" => pc' = "oponent_act"
       /\ pc = "oponent_act" => pc' = "player_act"
       /\ pc = "player_act" => pc' = "draw"]_vars

\* C8: the steps of a tick are event polling, Ball.move, Board.draw, the
\* opponent's act, the player's act and the clock, in this order; the draw
\* of a tick comes before both act calls of the tick.
C8_RunOrder ==
    [][/\ pc = "events" => pc' \in {"move", "quit"}
       /\ pc = "move" => pc' = "draw"
       /\ pc = "draw" => pc' = "oponent_act"
       /\ pc = "oponent_act" => pc' = "player_act"
       /\ pc = "player_act" => pc' = "clock"
       /\ pc = "clock" => pc' = "events"]_vars

\* a second tick has gone through its draw and both act calls
C8_Witness ==
    /\ pc = "clock"
    /\ now > 0

\* C9: the step that observes a QUIT or ESCAPE event leaves the ball and the
\* paddles as they are, and no step follows it.
C9_QuitIsFinal ==
    [][/\ pc # "quit"
       /\ pc' = "quit" => /\ pc = "events"
                          /\ ball' = ball
                          /\ player_paddle' = player_paddle
                          /\ opponent_paddle' = opponent_paddle]_vars

\* the loop has ended in a game in which the player's paddle had moved
C9_Witness ==
    /\ pc = "quit"
    /\ now > 0
    /\ player_paddle.x # W \div 2

Sum5(m) == m.far_left + m.left + m.center + m.right + m.far_right

Sum3(m) == m.above + m.center + m.below

\* C10: the memberships of every x_diff of -400..400 in the terms of x_dist
\* sum to more than 0, and so do the memberships of every y_diff of
\* -200..200 in the terms of y_dist.
C10_Coverage ==
    pc = "fuzzified" => Sum5(mf.x) > 0 /\ Sum3(mf.y) > 0

\* ------------------------------------------------- properties of infer
Neg(v) == [num |-> -v.num, den |-> v.den]

\* a < b for fractions with positive denominators, without products
RECURSIVE Less(_, _)
Less(a, b) ==
    LET qa == a.num \div a.den
        qb == b.num \div b.den
        ra == a.num % a.den
        rb == b.num % b.den
    IN  IF qa # qb THEN qa < qb
        ELSE IF rb = 0 THEN FALSE
        ELSE IF ra = 0 THEN TRUE
        ELSE Less([num |-> b.den, den |-> rb], [num |-> a.den, den |-> ra])

Whole(n) == [num |-> n, den |-> 1]

\* C11: infer(x, y) = -infer(-x, y) for the observations of the universes;
\* the firing strength of every output term at (x, y) is that of its mirror
\* term at (-x, y), and the output terms are mirror images about 0.
C11_Symmetry ==
    pc = "computed" =>
        LET f == Firing(mf)
            g == Firing(Fuzzified(-x_diff, y_diff))
        IN  /\ out = Neg(infer(-x_diff, y_diff))
            /\ f.fast_left = g.fast_right
            /\ f.slow_left = g.slow_right
            /\ f.stop = g.stop
            /\ f.slow_right = g.slow_left
            /\ f.fast_right = g.fast_left
            /\ \A u \in VelocityUniverse :
                 /\ velocity_mf(u).fast_left = velocity_mf(-u).fast_right
                 /\ velocity_mf(u).slow_left = velocity_mf(-u).slow_right
                 /\ velocity_mf(u).stop = velocity_mf(-u).stop

\* an output that is neither 0 nor whole, for a ball to the right and above
C11_Witness ==
    /\ pc = "computed"
    /\ x_diff < 0
    /\ y_diff < 0
    /\ out.num > 0
    /\ out.den > 1

C13_AlignedStaysPut ==
    (x_diff = 0 /\ y_diff = 0) =>
        /\ pc \in {"fuzzified", "computed", "acted"} =>
             /\ mf.x.center > 0
             /\ mf.x.far_left + mf.x.left + mf.x.right + mf.x.far_right = 0
             /\ \A t \in VelocityTerms : Firing(mf)[t] > 0 <=> t = "stop"
        /\ pc \in {"computed", "acted"} => out = Whole(0)
        /\ player_paddle.x = W \div 2

\* act has run for the observation (0, 0)
C13_Witness ==
    /\ pc = "acted"
    /\ x_diff = 0
    /\ y_diff = 0

\* C14 as stated: infer(-400, 0) is between 7 and 10 and the rules 3 and 1
\* both have a positive strength there.
C14_Rules3And1 ==
    (pc = "computed" /\ x_diff = -400 /\ y_diff = 0) =>
        /\ ~Less(out, Whole(7))
        /\ ~Less(Whole(10), out)
        /\ Strength(rules[3].antecedent, mf) > 0
        /\ Strength(rules[1].antecedent, mf) > 0

\* C14: infer(-400, 0) is between 7 and 10; rule 3 has a positive strength
\* there and rule 1 has none, the membership of -400 in left being 0.
C14_Rule3Only ==
    (pc = "computed" /\ x_diff = -400 /\ y_diff = 0) =>
        /\ ~Less(out, Whole(7))
        /\ ~Less(Whole(10), out)
        /\ Strength(rules[3].antecedent, mf) > 0
        /\ Strength(rules[1].antecedent, mf) = 0
        /\ mf.x.left = 0

\* the output for (-400, 0) has been computed
C14_Witness ==
    /\ pc = "computed"
    /\ x_diff = -400
    /\ y_diff = 0
    /\ out.num > 0

\* the y_diff, on the stride of the observations, with no membership in
\* above and none in center
FarY == {y \in -200 .. 200 : y % FineY = 0 /\ y_dist(y).above = 0 /\ y_dist(y).center = 0}

Near(m) == m.y.above > 0 \/ m.y.center > 0

\* C15 as stated: with x_diff in left (in right), the output for a y_diff in
\* above or center is strictly greater (smaller) than the output for the
\* same x_diff and a y_diff in neither; the order of the rules is immaterial.
C15_StrictOverride ==
    (pc = "computed" /\ Near(mf)) =>
        /\ out = infer(x_diff, y_diff)
        /\ mf.x.left > 0 => \A y \in FarY : Less(infer(x_diff, y), out)
        /\ mf.x.right > 0 => \A y \in FarY : Less(out, infer(x_diff, y))

\* C15: with x_diff in left (in right), the output for a y_diff in above or
\* center is at least (at most) the output for the same x_diff and a y_diff
\* in neither, and strictly greater (smaller) exactly when the strength of
\* rule 1 (rule 2) exceeds the membership of x_diff in far_left (far_right);
\* the order in which the rules are evaluated is immaterial.
C15_Override ==
    (pc = "computed" /\ Near(mf)) =>
        /\ out = infer(x_diff, y_diff)
        /\ mf.x.left > 0 => \A y \in FarY :
             /\ ~Less(out, infer(x_diff, y))
             /\ Less(infer(x_diff, y), out)
                  <=> Strength(rules[1].antecedent, mf) > mf.x.far_left
        /\ mf.x.right > 0 => \A y \in FarY :
             /\ ~Less(infer(x_diff, y), out)
             /\ Less(out, infer(x_diff, y))
                  <=> Strength(rules[2].antecedent, mf) > mf.x.far_right

\* an output for an x_diff in both left and far_left where rule 1 is the
\* stronger of the rules for fast_right
C15_Witness ==
    /\ pc = "computed"
    /\ mf.x.left > 0
    /\ mf.x.far_left > 0
    /\ Near(mf)
    /\ Strength(rules[1].antecedent, mf) > mf.x.far_left
    /\ \A y \in FarY : Less(infer(x_diff, y), out)

\* ------------------------------------------------ properties of the ball
OffBoard(x) == x < 0 \/ x > W - radius

\* C16: the ball's x is never outside [0, W - width] at the end of two
\* ticks in a row, and whenever it is outside at the end of a tick the
\* horizontal velocity points back to the board.
C16_OneTickExcursion ==
    /\ [](pc # "move" => /\ ball.x < 0 => ball.x_speed.sgn = 1
                         /\ ball.x > W - radius => ball.x_speed.sgn = -1)
    /\ [][(pc = "move" /\ OffBoard(ball.x)) => ~OffBoard(ball'.x)]_vars

\* a tick has ended with the ball left of the board
C16_Witness ==
    /\ pc = "events"
    /\ ball.x < 0
    /\ ball.x_speed.sgn = 1

\* C17: the two speeds have the same magnitude start_speed * 1.1^k, k >= 0
\* the number of power bounces since the last reset, which the color
\* counts; a tick that leaves the color alone changes signs only.
C17_EqualMagnitudes ==
    /\ [](/\ ball.x_speed.pow = ball.y_speed.pow
          /\ ball.x_speed.pow >= 0
          /\ ball.color[2] = start_color[2] + 10 * ball.x_speed.pow
          /\ Abs(Round(ball.x_speed)) = Abs(Round(ball.y_speed))
          /\ Abs(Round(ball.x_speed)) >= start_speed)
    /\ [][(pc = "move" /\ ball'.color = ball.color)
            => /\ ball'.x_speed.pow = ball.x_speed.pow
               /\ ball'.y_speed.pow = ball.y_speed.pow]_vars

\* a ball sped up twice was turned around by a plain bounce
C17_Witness ==
    /\ pc = "draw"
    /\ ball.x_speed.pow >= 2
    /\ ball.last_collision = now
    /\ \E r \in Rackets : Overlaps(ball.x, ball.y, r) /\ ~InOuterQuarter(ball.x, r)

====
